---- MODULE Spec2Model ----
(***************************************************************************)
(* Model of package targz (src/targz.go): Compress(inputFilePath,          *)
(* outputFilePath) packs one directory into a tar.gz archive.              *)
(*                                                                         *)
(* A path is a Go string, modelled as a sequence of one-character strings, *)
(* so that the byte slicing path[len(subPath):] of writeTarGz is computed  *)
(* on characters.  File names are one character long.  The filesystem is a *)
(* function from the paths that exist to their nodes.  The operating       *)
(* system calls (Stat, ReadDir, MkdirAll, Create, ...) and the tar and     *)
(* gzip writers are modelled by what the code relies on; a call that can   *)
(* fail in the environment fails by a nondeterministic choice.             *)
(***************************************************************************)
EXTENDS Integers, Sequences, FiniteSets, TLC

\* Number of Compress calls in one behaviour.
MaxCalls == 2

--------------------------------------------------------------------------
(* Path strings                                                            *)

\* Byte order of the characters used in file names (ReadDir sorts by name).
Alphabet == <<"D", "M", "a", "e", "f", "l", "o", "p", "q", "s", "x">>

Root == <<"/">>

\* The names of a path, in order: the path split at the separators.
Segs(p) == SelectSeq(p, LAMBDA c : c /= "/")

RECURSIVE Str(_)
\* The absolute path made of the names segs.
Str(segs) ==
    IF segs = <<>> THEN Root
    ELSE IF Len(segs) = 1 THEN <<"/", segs[1]>>
    ELSE Str(SubSeq(segs, 1, Len(segs) - 1)) \o <<"/", segs[Len(segs)]>>

\* filepath.Clean of a rooted path: no doubled and no trailing separator.
Clean(p) == Str(Segs(p))

\* The working directory of the process.
Cwd == <<"/", "a">>

\* filepath.Abs: a rooted path is cleaned, another one is joined to Cwd.
Abs(p) ==
    IF p /= <<>> /\ p[1] = "/" THEN Clean(p) ELSE Clean(Cwd \o <<"/">> \o p)

\* filepath.Dir and path.Dir of a clean rooted path.
Dir(p) ==
    LET s == Segs(p)
    IN  IF s = <<>> THEN Root ELSE Str(SubSeq(s, 1, Len(s) - 1))

\* filepath.Join(dir, name).
Join(dir, name) == Clean(dir \o <<"/", name>>)

\* path[len(subPath):]
SliceFrom(path, subPath) == SubSeq(path, Len(subPath) + 1, Len(path))

\* q is p or lies below p.
Under(q, p) ==
    /\ Len(Segs(q)) >= Len(Segs(p))
    /\ SubSeq(Segs(q), 1, Len(Segs(p))) = Segs(p)

stripTrailingSlashes(path) ==
    IF Len(path) > 0 /\ path[Len(path)] = "/"
    THEN SubSeq(path, 1, Len(path) - 1)
    ELSE path

\* The two paths made absolute (filepath.Abs fails only when the working
\* directory cannot be read, which the model leaves out).
makeAbsolute(inputFilePath, outputFilePath) ==
    [in |-> Abs(inputFilePath), out |-> Abs(outputFilePath), err |-> "nil"]

--------------------------------------------------------------------------
(* The filesystem                                                          *)

\* kind: "dir", "file", "symlink", "socket"; data: a regular file's bytes;
\* link: a symbolic link's target; tar: the entries of a written archive.
MkNode(kind, data, link) ==
    [kind |-> kind, data |-> data, link |-> link, tar |-> <<>>]

DirNode == MkNode("dir", <<>>, <<>>)
NoEnt == MkNode("none", <<>>, <<>>)
NotDir == MkNode("notdir", <<>>, <<>>)

\* os.Lstat: the node at p itself; "none" is ENOENT, "notdir" is ENOTDIR
\* (a name on the way to p exists and is no directory).
Lstat(f, p) ==
    IF p \in DOMAIN f THEN f[p]
    ELSE IF \E q \in DOMAIN f : Under(p, q) /\ f[q].kind /= "dir" THEN NotDir
    ELSE NoEnt

RECURSIVE Stat(_, _)
\* os.Stat: as Lstat, with a symbolic link at p followed.
Stat(f, p) ==
    LET n == Lstat(f, p)
    IN  IF n.kind = "symlink" THEN Stat(f, n.link) ELSE n

RECURSIVE RealPath(_, _)
\* The path that opening p reaches: a symbolic link at p is followed.
RealPath(f, p) ==
    IF Lstat(f, p).kind = "symlink" THEN RealPath(f, Lstat(f, p).link) ELSE p

\* The names in directory p, sorted by name.
ReadDirNames(f, p) == SelectSeq(Alphabet, LAMBDA c : Join(p, c) \in DOMAIN f)

\* ioutil.ReadDir(p): the sorted names of the directory p opens, or an error.
ReadDir(f, p) ==
    IF Stat(f, p).kind = "dir"
    THEN [err |-> "nil", files |-> ReadDirNames(f, RealPath(f, p))]
    ELSE [err |-> "readdir", files |-> <<>>]

\* os.RemoveAll(p): p and everything below it.
RemoveAll(f, p) == [q \in {r \in DOMAIN f : ~Under(r, p)} |-> f[q]]

\* os.Remove(p): a file, a link or an empty directory.
Remove(f, p) ==
    IF p \in DOMAIN f /\ ~(\E q \in DOMAIN f : q /= p /\ Under(q, p))
    THEN [q \in DOMAIN f \ {p} |-> f[q]]
    ELSE f

RECURSIVE MissingChain(_, _)
\* The directories os.MkdirAll(p) has to make, outermost first.
MissingChain(f, p) ==
    IF p \in DOMAIN f THEN <<>> ELSE Append(MissingChain(f, Dir(p)), p)

\* os.MkdirAll(p) stopped after k directories were made.
MkdirAllUpTo(f, p, k) ==
    LET chain == MissingChain(f, p)
        made == {chain[i] : i \in 1..k}
    IN  [q \in DOMAIN f \cup made |-> IF q \in made THEN DirNode ELSE f[q]]

\* os.Create(p): the file at p, made or truncated.
CreateErr(f, p) == Stat(f, p).kind = "dir" \/ Stat(f, Dir(p)).kind /= "dir"
Create(f, p) ==
    [q \in DOMAIN f \cup {p} |-> IF q = p THEN MkNode("file", <<>>, <<>>) ELSE f[q]]

--------------------------------------------------------------------------
(* The filesystems a behaviour starts from                                 *)

\* The source directory D lies in Parent: the root, or the directory /a.
Parents == {Root, <<"/", "a">>}

\* Below D: e, s, and in s (when it is a directory) f and l.
Positions == {"e", "s", "f", "l"}
PosPath(src, pos) ==
    IF pos \in {"e", "s"} THEN Join(src, pos) ELSE Join(Join(src, "s"), pos)

\* What a position holds: nothing, or a node of one of the four kinds.
Kinds == {"none", "dir", "file", "symlink", "socket"}

\* A file's bytes and a link's target, one per position: the file l is
\* empty; e links to the source directory, s to e, l to its sibling f, and
\* f to a name that does not exist.
DataAt(pos) ==
    CASE pos = "e" -> <<1>> [] pos = "s" -> <<2>> [] pos = "f" -> <<3, 4>>
      [] OTHER -> <<>>
LinkAt(src, pos) ==
    CASE pos = "e" -> src
      [] pos = "s" -> Join(src, "e")
      [] pos = "l" -> PosPath(src, "f")
      [] OTHER -> Join(src, "M")
NodeAt(src, pos, kind) ==
    CASE kind = "file" -> MkNode("file", DataAt(pos), <<>>)
      [] kind = "symlink" -> MkNode("symlink", <<>>, LinkAt(src, pos))
      [] OTHER -> MkNode(kind, <<>>, <<>>)

\* The source trees: f and l exist only in a directory s.
Trees ==
    {t \in [Positions -> Kinds] :
        t["s"] /= "dir" => (t["f"] = "none" /\ t["l"] = "none")}

\* The destination side: /o, /o/p and /o/p/x, each under a directory only;
\* x may be an archive written earlier (a file with bytes) or a directory.
OutDir == <<"/", "o", "/", "p">>
OutFile == <<"/", "o", "/", "p", "/", "x">>
OldFile == MkNode("file", <<9>>, <<>>)
DestCfgs ==
    {d \in [{"o", "p", "x"} -> {"none", "dir", "file"}] :
        /\ d["o"] /= "dir" => d["p"] = "none"
        /\ d["p"] /= "dir" => d["x"] = "none"}
DestNode(kind) == IF kind = "file" THEN OldFile ELSE DirNode

\* The filesystem with tree t at parent/D and destination side d.
MkFs(parent, t, d) ==
    LET src == Join(parent, "D")
        srcPaths == {PosPath(src, pos) : pos \in {q \in Positions : t[q] /= "none"}}
        dName(k) == CASE k = "o" -> Dir(OutDir) [] k = "p" -> OutDir [] OTHER -> OutFile
        dstPaths == {dName(k) : k \in {j \in DOMAIN d : d[j] /= "none"}}
        dirs == {Root, Cwd, src}
    IN  [q \in dirs \cup srcPaths \cup dstPaths |->
            IF q \in dirs THEN DirNode
            ELSE IF q \in srcPaths
            THEN LET pos == CHOOSE x \in Positions : PosPath(src, x) = q
                 IN  NodeAt(src, pos, t[pos])
            ELSE LET k == CHOOSE x \in DOMAIN d : dName(x) = q
                 IN  DestNode(d[k])]

\* What Compress is called with: the source directory by its rooted path,
\* with a trailing separator, relative to Cwd, and a path that is missing;
\* the destination in /o/p or in /o/q.
InputPaths ==
    { <<"/", "D">>, <<"/", "a", "/", "D", "/">>, <<"D">>, <<"/", "M">> }
OutputPaths == { OutFile, <<"/", "o", "/", "q", "/", "x">> }

--------------------------------------------------------------------------
(* The state                                                               *)

VARIABLES
    fs,         \* the filesystem
    fs0,        \* the filesystem as the running call found it
    pc,         \* where the running call is
    calls,      \* the calls made so far
    inPath,     \* inputFilePath, stripped and absolute
    outPath,    \* outputFilePath, absolute
    undoDir,    \* mkdirAll's undoDir; <<>> when nothing is to be undone
    err,        \* the error Compress returns; "nil" for none
    stack,      \* the writeDirectory calls in progress
    archive,    \* the entries written to the tar writer
    writers,    \* the output file and writers that are open
    readers,    \* the source files that are open
    opened,     \* the paths opened for reading by the running call
    readDirs,   \* the directories writeDirectory listed, in order
    writeCalls  \* the paths writeDirectory handed to writeTarGz, in order

vars == <<fs, fs0, pc, calls, inPath, outPath, undoDir, err, stack, archive,
          writers, readers, opened, readDirs, writeCalls>>

\* subPath, as Compress passes it to compress.
subPath == Dir(inPath)

--------------------------------------------------------------------------
(* mkdirAll and the deferred clean-up                                      *)

RECURSIVE mkdirAllWalkEager(_, _, _)
\* mkdirAll with undoDir = p assigned before p is looked at: a directory
\* that exists is taken for one that was made.
mkdirAllWalkEager(f, p, undo) ==
    LET finfo == Stat(f, p)
    IN  IF finfo.kind = "notdir" THEN [err |-> "stat", undoDir |-> <<>>]
        ELSE IF finfo.kind /= "none"
        THEN IF finfo.kind = "dir" \/ Lstat(f, p).kind = "dir"
             THEN [err |-> "nil", undoDir |-> p]
             ELSE [err |-> "ENOTDIR", undoDir |-> <<>>]
        ELSE mkdirAllWalkEager(f, Dir(p), p)

RECURSIVE mkdirAllWalk(_, _, _)
\* The loop of mkdirAll from p upwards: the first directory that exists
\* ends it, a name that exists and is no directory is an error (ENOTDIR
\* from the code, or Stat's own error), a missing name becomes undoDir.
mkdirAllWalk(f, p, undo) ==
    LET finfo == Stat(f, p)
    IN  IF finfo.kind = "notdir" THEN [err |-> "stat", undoDir |-> <<>>]
        ELSE IF finfo.kind /= "none"
        THEN IF finfo.kind = "dir" \/ Lstat(f, p).kind = "dir"
             THEN [err |-> "nil", undoDir |-> undo]
             ELSE [err |-> "ENOTDIR", undoDir |-> <<>>]
        ELSE mkdirAllWalk(f, Dir(p), p)

\* The function mkdirAll returns, applied: nothing, or os.RemoveAll(undoDir).
undo(f, u) == IF u = <<>> THEN f ELSE RemoveAll(f, u)

\* What Compress leaves when compress failed before os.Create succeeded:
\* the deferred undoDir() of Compress has run.
FailBeforeCreate(f, u) == undo(f, u)

\* What Compress leaves when compress failed after os.Create: the deferred
\* os.Remove(outFilePath) of compress, then the deferred undoDir().
FailAfterCreate(f, out, u) == undo(Remove(f, out), u)

--------------------------------------------------------------------------
(* writeTarGz                                                              *)

\* A listing that follows symbolic links: the FileInfo of os.Stat.
FileInfoFollow(f, path) == Stat(f, path)

\* The FileInfo ioutil.ReadDir gives for path: that of Lstat.
FileInfoOf(f, path) == Lstat(f, path)

IsDir(fileInfo) == fileInfo.kind = "dir"
IsRegular(fileInfo) == fileInfo.kind = "file"
IsSymlink(fileInfo) == fileInfo.kind = "symlink"
IsSocket(fileInfo) == fileInfo.kind = "socket"

\* tar.FileInfoHeader: the header of a file, directory or link; a socket
\* has none.
FileInfoHeader(fileInfo, link) ==
    IF IsSocket(fileInfo)
    THEN [err |-> "header", header |-> [name |-> <<>>, type |-> "none",
                                        link |-> <<>>, data |-> <<>>]]
    ELSE [err |-> "nil",
          header |-> [name |-> <<>>,
                      type |-> IF IsDir(fileInfo) THEN "dir"
                               ELSE IF IsSymlink(fileInfo) THEN "symlink"
                               ELSE "reg",
                      link |-> link,
                      data |-> <<>>]]

\* The calls of writeTarGz that may fail for fileInfo.
WriteFaults(fileInfo) ==
    {"none"}
    \cup (IF IsSymlink(fileInfo) THEN {"readlink"} ELSE {})
    \cup (IF ~IsSocket(fileInfo) THEN {"header"} ELSE {})
    \cup (IF IsRegular(fileInfo) THEN {"open", "copy"} ELSE {})

\* What io.Copy wrote of data when it failed.
Partial(data) == IF data = <<>> THEN <<>> ELSE SubSeq(data, 1, Len(data) - 1)

WriteResult(e, entries, opens, closes) ==
    [err |-> e, entries |-> entries, opens |-> opens, closes |-> closes]

\* The name when line 212 is left out: the one tar.FileInfoHeader set,
\* the last name of path.
HeaderNameBase(path, sub) == <<path[Len(path)]>>

\* The name writeTarGz records for path.
HeaderName(path, sub) == SliceFrom(path, sub)

\* writeTarGz without its socket test.
SkippedNever(fileInfo) == FALSE

\* Whether writeTarGz returns before making a header for fileInfo.
Skipped(fileInfo) == IsSocket(fileInfo)

\* The source files writeTarGz closes among those it opened (defer).
DeferredClose(opens) == opens

\* writeTarGz(path, tarWriter, fileInfo, subPath) with the call named by
\* fault failing: the error, the entries written, the files opened and
\* closed.
writeTarGz(f, path, fileInfo, sub, fault) ==
    LET link == IF IsSymlink(fileInfo) THEN Lstat(f, path).link ELSE <<>>
        fih == FileInfoHeader(fileInfo, link)
        header == [fih.header EXCEPT !.name = HeaderName(path, sub)]
        src == Stat(f, path)
    IN  IF IsSymlink(fileInfo) /\ fault = "readlink"
        THEN WriteResult("readlink", <<>>, {}, {})
        ELSE IF Skipped(fileInfo) THEN WriteResult("nil", <<>>, {}, {})
        ELSE IF fih.err /= "nil" THEN WriteResult(fih.err, <<>>, {}, {})
        ELSE IF fault = "header" THEN WriteResult("write", <<>>, {}, {})
        ELSE IF ~IsRegular(fileInfo) THEN WriteResult("nil", <<header>>, {}, {})
        ELSE IF fault = "open" \/ src.kind \in {"none", "notdir"}
        THEN WriteResult("open", <<header>>, {}, {})
        ELSE IF fault = "copy" \/ src.kind /= "file"
        THEN WriteResult("copy", <<[header EXCEPT !.data = Partial(src.data)]>>,
                         {path}, DeferredClose({path}))
        ELSE WriteResult("nil", <<[header EXCEPT !.data = src.data]>>,
                         {path}, DeferredClose({path}))

--------------------------------------------------------------------------
(* The actions                                                             *)

\* A writeDirectory that writes every directory's own header.
WritesOwnHeaderAlways(files) == TRUE

\* Whether writeDirectory writes the directory itself (line 165).
WritesOwnHeader(files) == Len(files) = 0

Frame(directory, files, listed) ==
    [directory |-> directory, files |-> files, listed |-> listed]

Top == stack[Len(stack)]
ReplaceTop(fr) == [stack EXCEPT ![Len(stack)] = fr]

Init ==
    /\ \E parent \in Parents, t \in Trees, d \in DestCfgs : fs = MkFs(parent, t, d)
    /\ fs0 = fs
    /\ pc = "idle"
    /\ calls = 0
    /\ inPath = <<>>
    /\ outPath = <<>>
    /\ undoDir = <<>>
    /\ err = "nil"
    /\ stack = <<>>
    /\ archive = <<>>
    /\ writers = {}
    /\ readers = {}
    /\ opened = {}
    /\ readDirs = <<>>
    /\ writeCalls = <<>>

\* Compress is called (lines 24-29): the paths are stripped and made absolute.
Call(inputFilePath, outputFilePath) ==
    /\ pc = "idle"
    /\ calls < MaxCalls
    /\ LET m == makeAbsolute(stripTrailingSlashes(inputFilePath), outputFilePath)
       IN  /\ inPath' = m.in
           /\ outPath' = m.out
    /\ calls' = calls + 1
    /\ fs0' = fs
    /\ pc' = "mkdirAll"
    /\ UNCHANGED <<fs, undoDir, err, stack, archive, writers, readers, opened,
                   readDirs, writeCalls>>

\* mkdirAll(filepath.Dir(outputFilePath), 0755) (lines 30-33, 49-88):
\* os.MkdirAll may fail after any number of the missing directories.
MkdirAll ==
    /\ pc = "mkdirAll"
    /\ LET dirPath == Dir(outPath)
           w == mkdirAllWalk(fs, dirPath, <<>>)
           n == Len(MissingChain(fs, dirPath))
       IN  IF w.err /= "nil"
           THEN /\ err' = w.err
                /\ pc' = "done"
                /\ UNCHANGED <<fs, undoDir>>
           ELSE IF w.undoDir = <<>>
           THEN /\ pc' = "compress"
                /\ UNCHANGED <<fs, undoDir, err>>
           ELSE \E k \in 0..n :
                /\ fs' = MkdirAllUpTo(fs, dirPath, k)
                /\ IF k = n
                   THEN /\ undoDir' = w.undoDir
                        /\ pc' = "compress"
                        /\ err' = err
                   ELSE /\ undoDir' = undoDir
                        /\ pc' = "done"
                        /\ err' = "mkdir"
    /\ UNCHANGED <<fs0, calls, inPath, outPath, stack, archive, writers, readers,
                   opened, readDirs, writeCalls>>

\* compress up to its call of writeDirectory (lines 112-135): the source is
\* listed, an empty one refused, the destination file made and wrapped.
CompressOpen ==
    /\ pc = "compress"
    /\ LET rd == ReadDir(fs, inPath)
       IN  IF rd.err /= "nil" \/ Len(rd.files) = 0
           THEN /\ err' = IF rd.err /= "nil" THEN rd.err ELSE "empty"
                /\ fs' = FailBeforeCreate(fs, undoDir)
                /\ pc' = "done"
                /\ UNCHANGED <<stack, writers>>
           ELSE \E fault \in BOOLEAN :
                IF fault \/ CreateErr(fs, outPath)
                THEN /\ err' = "create"
                     /\ fs' = FailBeforeCreate(fs, undoDir)
                     /\ pc' = "done"
                     /\ UNCHANGED <<stack, writers>>
                ELSE /\ fs' = Create(fs, outPath)
                     /\ writers' = {"file", "gzip", "tar"}
                     /\ stack' = <<Frame(inPath, <<>>, FALSE)>>
                     /\ pc' = "walk"
                     /\ err' = err
    /\ UNCHANGED <<fs0, calls, inPath, outPath, undoDir, archive, readers, opened,
                   readDirs, writeCalls>>

\* compress returns the error e of writeDirectory (lines 135-138) after
\* entries were written and opens opened, closes closed.
WalkFails(e, w) ==
    /\ err' = e
    /\ archive' = archive \o w.entries
    /\ opened' = opened \cup w.opens
    /\ readers' = (readers \cup w.opens) \ w.closes
    /\ fs' = FailAfterCreate(fs, outPath, undoDir)
    /\ stack' = <<>>
    /\ pc' = "done"

WalkGoesOn(w, newStack) ==
    /\ archive' = archive \o w.entries
    /\ opened' = opened \cup w.opens
    /\ readers' = (readers \cup w.opens) \ w.closes
    /\ stack' = newStack
    /\ UNCHANGED <<err, fs, pc>>

NoWrite == WriteResult("nil", <<>>, {}, {})

\* writeDirectory is entered (lines 159-174): the directory is listed, and
\* written itself when it is empty.
WriteDirectoryList ==
    /\ pc = "walk"
    /\ stack /= <<>>
    /\ ~Top.listed
    /\ LET directory == Top.directory
           rd == ReadDir(fs, directory)
       IN  /\ readDirs' = Append(readDirs, directory)
           /\ \/ /\ WalkFails("readdir", NoWrite)
                 /\ UNCHANGED writeCalls
              \/ /\ rd.err = "nil"
                 /\ WritesOwnHeader(rd.files)
                 /\ writeCalls' = Append(writeCalls, directory)
                 /\ LET dirInfo == Stat(fs, directory)
                    IN  \E fault \in WriteFaults(dirInfo) :
                         LET w == writeTarGz(fs, directory, dirInfo, subPath, fault)
                         IN  IF w.err /= "nil"
                             THEN WalkFails(w.err, w)
                             ELSE WalkGoesOn(w, ReplaceTop(Frame(directory, rd.files, TRUE)))
              \/ /\ rd.err = "nil"
                 /\ ~WritesOwnHeader(rd.files)
                 /\ WalkGoesOn(NoWrite, ReplaceTop(Frame(directory, rd.files, TRUE)))
                 /\ UNCHANGED writeCalls
    /\ UNCHANGED <<fs0, calls, inPath, outPath, undoDir, writers>>

\* One round of writeDirectory's loop (lines 176-189): a directory is
\* entered, anything else is handed to writeTarGz.
WriteDirectoryEntry ==
    /\ pc = "walk"
    /\ stack /= <<>>
    /\ Top.listed
    /\ Top.files /= <<>>
    /\ LET directory == Top.directory
           currentPath == Join(directory, Head(Top.files))
           file == FileInfoOf(fs, currentPath)
           rest == ReplaceTop(Frame(directory, Tail(Top.files), TRUE))
       IN  IF IsDir(file)
           THEN /\ WalkGoesOn(NoWrite, Append(rest, Frame(currentPath, <<>>, FALSE)))
                /\ UNCHANGED writeCalls
           ELSE /\ writeCalls' = Append(writeCalls, currentPath)
                /\ \E fault \in WriteFaults(file) :
                     LET w == writeTarGz(fs, currentPath, file, subPath, fault)
                     IN  IF w.err /= "nil"
                         THEN WalkFails(w.err, w)
                         ELSE WalkGoesOn(w, rest)
    /\ UNCHANGED <<fs0, calls, inPath, outPath, undoDir, writers, readDirs>>

\* writeDirectory returns nil (line 191); the outermost return takes
\* compress to its closes.
WriteDirectoryReturn ==
    /\ pc = "walk"
    /\ stack /= <<>>
    /\ Top.listed
    /\ Top.files = <<>>
    /\ stack' = SubSeq(stack, 1, Len(stack) - 1)
    /\ pc' = IF Len(stack) = 1 THEN "closeTar" ELSE "walk"
    /\ UNCHANGED <<fs, fs0, calls, inPath, outPath, undoDir, err, archive, writers,
                   readers, opened, readDirs, writeCalls>>

\* A close of compress fails (lines 140-153): the deferred clean-up runs.
CloseFails(w) ==
    /\ err' = "close"
    /\ writers' = writers \ {w}
    /\ fs' = FailAfterCreate(fs, outPath, undoDir)
    /\ pc' = "done"

\* tarWriter.Close() (lines 140-143).
CloseTar ==
    /\ pc = "closeTar"
    /\ \/ CloseFails("tar")
       \/ /\ writers' = writers \ {"tar"}
          /\ pc' = "closeGzip"
          /\ UNCHANGED <<fs, err>>
    /\ UNCHANGED <<fs0, calls, inPath, outPath, undoDir, stack, archive, readers,
                   opened, readDirs, writeCalls>>

\* gzipWriter.Close() (lines 145-148).
CloseGzip ==
    /\ pc = "closeGzip"
    /\ \/ CloseFails("gzip")
       \/ /\ writers' = writers \ {"gzip"}
          /\ pc' = "closeFile"
          /\ UNCHANGED <<fs, err>>
    /\ UNCHANGED <<fs0, calls, inPath, outPath, undoDir, stack, archive, readers,
                   opened, readDirs, writeCalls>>

\* file.Close() and the return of nil (lines 150-155, 40-45): the archive
\* is on disk.
CloseFile ==
    /\ pc = "closeFile"
    /\ \/ CloseFails("file")
       \/ /\ writers' = writers \ {"file"}
          /\ fs' = [fs EXCEPT ![outPath].tar = archive]
          /\ err' = "nil"
          /\ pc' = "done"
    /\ UNCHANGED <<fs0, calls, inPath, outPath, undoDir, stack, archive, readers,
                   opened, readDirs, writeCalls>>

\* The caller goes on after Compress returned.
Return ==
    /\ pc = "done"
    /\ pc' = "idle"
    /\ fs0' = fs
    /\ inPath' = <<>>
    /\ outPath' = <<>>
    /\ undoDir' = <<>>
    /\ err' = "nil"
    /\ stack' = <<>>
    /\ archive' = <<>>
    /\ writers' = {}
    /\ readers' = {}
    /\ opened' = {}
    /\ readDirs' = <<>>
    /\ writeCalls' = <<>>
    /\ UNCHANGED <<fs, calls>>

Next ==
    \/ \E i \in InputPaths, o \in OutputPaths : Call(i, o)
    \/ MkdirAll
    \/ CompressOpen
    \/ WriteDirectoryList
    \/ WriteDirectoryEntry
    \/ WriteDirectoryReturn
    \/ CloseTar
    \/ CloseGzip
    \/ CloseFile
    \/ Return

Spec == Init /\ [][Next]_vars

--------------------------------------------------------------------------
(* What the properties speak of                                            *)

\* Compress has returned, with nil or with an error.
Returned == pc = "done"
Succeeded == pc = "done" /\ err = "nil"
Failed == pc = "done" /\ err /= "nil"

\* The directories on the way to p, the root included.
Ancestors(p) == {Str(SubSeq(Segs(p), 1, k)) : k \in 0..(Len(Segs(p)) - 1)}

\* The source directory and all that lies below it.
SourceNodes == {q \in DOMAIN fs : Under(q, inPath)}

\* q has something in it.
HasEntries(q) == \E r \in DOMAIN fs : r /= q /\ Under(r, q)

\* The names of q from the source directory's own name on: D, D/s, D/s/f.
RelSegs(q) == SubSeq(Segs(q), Len(Segs(inPath)), Len(Segs(q)))

\* The archive's entries for q: those an extractor puts at q's place.
EntriesFor(q) == {i \in 1..Len(archive) : Segs(archive[i].name) = RelSegs(q)}

Count(seq, x) == Cardinality({i \in DOMAIN seq : seq[i] = x})

\* The entry type of a node kind.
TypeOfKind(kind) ==
    CASE kind = "file" -> "reg" [] kind = "dir" -> "dir" [] OTHER -> kind

\* The tree my_folder/{my_sub_folder/{my_file.txt, my_link}, empty/} of
\* _examples/main.go: D/{s/{f, l -> f}, e/}.
ExampleTree ==
    /\ {RelSegs(q) : q \in SourceNodes} =
          { <<"D">>, <<"D", "e">>, <<"D", "s">>, <<"D", "s", "f">>, <<"D", "s", "l">> }
    /\ fs[Join(inPath, "e")].kind = "dir"
    /\ fs[PosPath(inPath, "f")].kind = "file"
    /\ fs[PosPath(inPath, "l")].kind = "symlink"

--------------------------------------------------------------------------
(* C1 *)

\* C1: whenever Compress has returned an error, the destination path does
\* not exist, no parent directory made by this call exists, and every
\* parent directory that existed before the call still exists.
C1_NoPartialArtifacts ==
    Failed =>
        /\ outPath \notin DOMAIN fs
        /\ \A q \in Ancestors(outPath) :
              /\ q \notin DOMAIN fs0 => q \notin DOMAIN fs
              /\ q \in DOMAIN fs0 => q \in DOMAIN fs

(* C2 *)

\* C2: whenever Compress has returned an error, the filesystem (the files
\* and directories and their contents) is the one the call found.
C2_FilesystemAsFound == Failed => fs = fs0

(* C4 *)

\* An entry name that begins with the source directory's own name.
RootedAtSource(name) ==
    /\ name /= <<>>
    /\ name[1] = Segs(inPath)[Len(Segs(inPath))]
    /\ Len(name) > 1 => name[2] = "/"

\* C4: every entry name written to the archive begins with the source
\* directory's own name: no name of its parent and no separator before it.
C4_TopLevelNaming ==
    \A i \in 1..Len(archive) : RootedAtSource(archive[i].name)

(* C9 *)

\* The source directory exists and has no entries.
EmptySource == Stat(fs0, inPath).kind = "dir" /\ ReadDirNames(fs0, inPath) = <<>>

\* C9: for an empty source directory Compress returns an error, leaves the
\* destination path as it was (no file made or truncated) and leaves none
\* of the parent directories it made; a source directory with an entry is
\* not refused as empty.
C9_EmptySourcePolicy ==
    Returned =>
        /\ EmptySource =>
              /\ err /= "nil"
              /\ Lstat(fs, outPath) = Lstat(fs0, outPath)
              /\ \A q \in Ancestors(outPath) : q \notin DOMAIN fs0 => q \notin DOMAIN fs
        /\ ~EmptySource => err /= "empty"

(* C10 *)

\* C10: when Compress has returned, the destination file, the gzip writer,
\* the tar writer and every source file it opened are closed.
C10_GuaranteedRelease == Returned => (writers = {} /\ readers = {})

--------------------------------------------------------------------------
(* C3 *)

\* The node an extractor makes of an entry.
ExtractNode(e) ==
    MkNode(IF e.type = "reg" THEN "file" ELSE e.type, e.data, e.link)

RECURSIVE Extract(_)
\* What a conforming extractor makes of the entries, in order: each entry
\* at its name with leading separators dropped, the directories on the way
\* to it made when they are missing.  The result maps the names of a place
\* (D, s, f for D/s/f) to the node there.
Extract(entries) ==
    IF entries = <<>> THEN [s \in {} |-> DirNode]
    ELSE LET m == Extract(SubSeq(entries, 1, Len(entries) - 1))
             e == entries[Len(entries)]
             segs == Segs(e.name)
             onWay == {SubSeq(segs, 1, k) : k \in 1..(Len(segs) - 1)}
         IN  [s \in DOMAIN m \cup onWay \cup {segs} |->
                 IF s = segs THEN ExtractNode(e)
                 ELSE IF s \in DOMAIN m THEN m[s]
                 ELSE DirNode]

\* The source directory as such a map.
SourceTree ==
    [s \in {RelSegs(q) : q \in SourceNodes} |->
        fs[CHOOSE q \in SourceNodes : RelSegs(q) = s]]

NoSockets == \A q \in SourceNodes : fs[q].kind /= "socket"

\* C3: when Compress succeeded on a tree of regular files, directories and
\* symbolic links, extracting the archive gives the tree back: every file
\* with its bytes, every directory, every link with its target.
C3_RoundTrip == (Succeeded /\ NoSockets) => Extract(archive) = SourceTree

\* Compress succeeded on the example tree below /a.
C3_Witness == Succeeded /\ ExampleTree /\ subPath = Cwd

(* C5 *)

\* q was visited once: listed once when it is a directory, handed to
\* writeTarGz once when it is anything else.
VisitedOnce(q) ==
    IF fs[q].kind = "dir" THEN Count(readDirs, q) = 1 ELSE Count(writeCalls, q) = 1

Leaf(q) == fs[q].kind \in {"file", "symlink"} \/ (fs[q].kind = "dir" /\ ~HasEntries(q))

Symlinks == {q \in SourceNodes : fs[q].kind = "symlink"}

\* C6: nothing but a regular file is ever opened for reading and nothing
\* but a directory is ever listed or entered; an entry for a link is a
\* link entry with the link's own target and no content, and there is at
\* most one; after a successful Compress every link has exactly one.
C6_SymlinkFidelity ==
    pc /= "idle" =>
        /\ \A q \in opened : Lstat(fs, q).kind = "file"
        /\ \A i \in DOMAIN readDirs : Lstat(fs, readDirs[i]).kind = "dir"
        /\ \A i \in DOMAIN stack : Lstat(fs, stack[i].directory).kind = "dir"
        /\ \A q \in Symlinks :
              /\ Cardinality(EntriesFor(q)) <= 1
              /\ \A i \in EntriesFor(q) :
                    /\ archive[i].type = "symlink"
                    /\ archive[i].link = fs[q].link
                    /\ archive[i].data = <<>>
              /\ Succeeded => Cardinality(EntriesFor(q)) = 1

\* Compress succeeded on a tree with a link to a regular file (l -> f) and
\* a link to a directory that is an ancestor (e -> D).
C6_Witness ==
    /\ Succeeded
    /\ \E q \in Symlinks : Stat(fs, q).kind = "file"
    /\ \E q \in Symlinks : Stat(fs, q).kind = "dir" /\ Under(q, fs[q].link)
    /\ Len(archive) >= 3

(* C7 *)

Sockets == {q \in SourceNodes : fs[q].kind = "socket"}

\* C7: a socket never makes Compress fail (no header is asked for one) and
\* never has an entry; after a successful Compress every regular file and
\* every link has its one entry, with its type, bytes and target, whatever
\* sockets lie beside it.
C7_SocketExclusion ==
    pc /= "idle" =>
        /\ err /= "header"
        /\ \A q \in Sockets : EntriesFor(q) = {}
        /\ Succeeded =>
              \A q \in SourceNodes :
                  fs[q].kind \in {"file", "symlink"} =>
                      /\ Cardinality(EntriesFor(q)) = 1
                      /\ \A i \in EntriesFor(q) :
                            ExtractNode(archive[i]) = fs[q]

\* Compress succeeded on a tree with a socket beside a regular file.
C7_Witness ==
    /\ Succeeded
    /\ Sockets /= {}
    /\ \E q \in SourceNodes : fs[q].kind = "file" /\ EntriesFor(q) /= {}

(* C8 *)

\* C8: a call removes no directory that existed when it began; and when
\* the destination's directory existed then, mkdirAll neither fails nor
\* leaves anything to undo.
C8_ParentCreationIdempotent ==
    pc /= "idle" =>
        /\ \A q \in DOMAIN fs0 :
              fs0[q].kind = "dir" => (q \in DOMAIN fs /\ fs[q].kind = "dir")
        /\ Stat(fs0, Dir(outPath)).kind = "dir" =>
              (err \notin {"ENOTDIR", "stat", "mkdir"} /\ undoDir = <<>>)

\* A second call into /o/q, a directory that only an earlier successful
\* call can have made, has failed after its destination file was made.
C8_Witness ==
    /\ calls = 2
    /\ Failed
    /\ err \in {"copy", "close", "write"}
    /\ outPath = <<"/", "o", "/", "q", "/", "x">>
    /\ Dir(outPath) \in DOMAIN fs0
    /\ Dir(outPath) \in DOMAIN fs

====
